---------------------------- MODULE Spec2Model ----------------------------
(***************************************************************************)
(* Model of scripts/halt_alerts.py: the poll loop that deduplicates        *)
(* trading-halt feed entries, schedules delayed synthetic RESUME           *)
(* notifications and persists its state as a JSON file.                    *)
(*                                                                         *)
(* Time is counted in minutes.  The wall clock is read by                  *)
(* process_due_resumes and by schedule_resume; the time a cycle spends in  *)
(* blocking calls is folded into the sleep that follows it.  feed.entries   *)
(* is an input the loop of process_feed reads one entry at a time: the     *)
(* model draws each entry when the loop reaches it, so a feed is any       *)
(* finite sequence of Entries.                                             *)
(***************************************************************************)
EXTENDS Integers, Sequences, FiniteSets, TLC

(* ------------------------------ bounds -------------------------------- *)

\* The wall clock stops advancing at MaxTime (no tick starts after it).
MaxTime == 10

(* -------------------------- program constants -------------------------- *)

\* POLL_SECONDS = 60, in minutes.
POLL_MINUTES == 1

\* delay_minutes of the first halt of a streak.
FIRST_DELAY == 5

\* delay_minutes of the second halt of a streak.
SECOND_DELAY == 10

\* delay_minutes of every later halt of a streak.
LATER_DELAY == 10

(* ------------------------------ strings -------------------------------- *)

\* str.strip() on the values the model feeds in: a blank value strips to "".
Strip(s) == IF s = " " THEN "" ELSE s

\* str.upper() on the reason codes the model feeds in.
Upper(s) ==
    CASE s = "Resume" -> "RESUME"
      [] s = "Resumed" -> "RESUMED"
      [] OTHER -> s

\* `"RESUME" in reason` on the (upper-cased) reason codes the model feeds in.
ContainsRESUME(s) == s \in {"RESUME", "RESUMED"}

RECURSIVE JoinPipe(_)
\* "|".join(parts)
JoinPipe(parts) ==
    IF parts = <<>> THEN ""
    ELSE IF Len(parts) = 1 THEN parts[1]
    ELSE parts[1] \o "|" \o JoinPipe(Tail(parts))

\* [part for part in parts if part]
NonEmpty(parts) == SelectSeq(parts, LAMBDA p : p # "")

\* hashlib.sha1(raw).hexdigest(), idealised as collision free.
Sha1Hex(raw) == "sha1(" \o raw \o ")"

(* ---------------------------- feed entries ----------------------------- *)

RECURSIVE get_first(_, _, _)
\* The value of the first key of keys that the entry holds non-empty.
get_first(entry, keys, default) ==
    IF keys = <<>> THEN default
    ELSE IF Head(keys) \in DOMAIN entry /\ entry[Head(keys)] # ""
         THEN Strip(entry[Head(keys)])
         ELSE get_first(entry, Tail(keys), default)

\* A classifier that compares the reason as it is written.
detect_event_type_case_sensitive(entry) ==
    LET resume_time == get_first(entry, <<"resumetime", "resume_time",
                                          "resumetime_est", "resume_time_est">>, "")
        resume_date == get_first(entry, <<"resumedate", "resume_date">>, "")
        reason == get_first(entry, <<"reasoncode", "reason_code", "reason">>, "")
    IN  IF resume_time # "" \/ resume_date # "" THEN "RESUME"
        ELSE IF ContainsRESUME(reason) THEN "RESUME"
        ELSE "HALT"

detect_event_type(entry) ==
    LET resume_time == get_first(entry, <<"resumetime", "resume_time",
                                          "resumetime_est", "resume_time_est">>, "")
        resume_date == get_first(entry, <<"resumedate", "resume_date">>, "")
        reason == Upper(get_first(entry, <<"reasoncode", "reason_code", "reason">>, ""))
    IN  IF resume_time # "" \/ resume_date # "" THEN "RESUME"
        ELSE IF ContainsRESUME(reason) THEN "RESUME"
        ELSE "HALT"

event_id_for(entry, event_type) ==
    LET symbol == get_first(entry, <<"symbol", "ticker">>, "")
        halt_date == get_first(entry, <<"haltdate", "halt_date", "date">>, "")
        halt_time == get_first(entry, <<"halttime", "halt_time">>, "")
        resume_date == get_first(entry, <<"resumedate", "resume_date">>, "")
        resume_time == get_first(entry, <<"resumetime", "resume_time">>, "")
        reason == get_first(entry, <<"reasoncode", "reason_code", "reason">>, "")
        compact == JoinPipe(NonEmpty(<<event_type, symbol, halt_date, halt_time,
                                       resume_date, resume_time, reason>>))
        raw == JoinPipe(<<get_first(entry, <<"id", "guid">>, ""),
                          get_first(entry, <<"title">>, ""),
                          get_first(entry, <<"link">>, ""),
                          get_first(entry, <<"published", "updated">>, "")>>)
    IN  IF compact # "" THEN compact ELSE "fallback:" \o Sha1Hex(raw)

\* The ticker process_feed, schedule_resume and the titles use.
TickerOf(entry) == get_first(entry, <<"symbol", "ticker">>, "UNKNOWN")

\* The entries the feed can hold: three halts of ABC, a resume of ABC and a
\* halt of XYZ.
HaltABC1 == [symbol |-> "ABC", haltdate |-> "d1", halttime |-> "t1", reasoncode |-> "T1"]
HaltABC2 == [symbol |-> "ABC", haltdate |-> "d1", halttime |-> "t2", reasoncode |-> "T1"]
HaltABC3 == [symbol |-> "ABC", haltdate |-> "d1", halttime |-> "t3", reasoncode |-> "T1"]
ResumeABC == [symbol |-> "ABC", haltdate |-> "d1", halttime |-> "t1", reasoncode |-> "T1",
              resumedate |-> "d1", resumetime |-> "r1"]
HaltXYZ1 == [symbol |-> "XYZ", haltdate |-> "d1", halttime |-> "t1", reasoncode |-> "T1"]

Entries == {HaltABC1, HaltABC2, HaltABC3, ResumeABC, HaltXYZ1}

IdOf(entry) == event_id_for(entry, detect_event_type(entry))

AllIds == {IdOf(e) : e \in Entries}

Tickers == {TickerOf(e) : e \in Entries}

(* --------------------------- the state file ---------------------------- *)

\* The order json.dump(sort_keys=True) writes the tickers in.
KeyRank(k) == CASE k = "ABC" -> 1 [] k = "UNKNOWN" -> 2 [] k = "XYZ" -> 3 [] OTHER -> 4

RECURSIVE SetToSeq(_)
\* list(seen_ids): the elements of a set in some order.
SetToSeq(S) ==
    IF S = {} THEN <<>>
    ELSE LET x == CHOOSE y \in S : TRUE IN <<x>> \o SetToSeq(S \ {x})

RECURSIVE SortedItems(_, _)
\* The (key, value) members of a dict in sort_keys order.
SortedItems(d, keys) ==
    IF keys = {} THEN <<>>
    ELSE LET k == CHOOSE x \in keys : \A y \in keys : KeyRank(x) <= KeyRank(y)
         IN  <<<<k, d[k]>>>> \o SortedItems(d, keys \ {k})

EmptyDict == [k \in {} |-> 0]

EmptyDoc == [seen_ids |-> <<>>, pending_resumes |-> <<>>, halt_counts |-> <<>>]

\* A dump that leaves out the counters that are 0.
json_dump_skips_zero(st) ==
    [seen_ids |-> SetToSeq(st.seen_ids),
     pending_resumes |-> st.pending_resumes,
     halt_counts |-> SortedItems(st.halt_counts,
                                 {k \in DOMAIN st.halt_counts : st.halt_counts[k] # 0})]

\* The document json.dump writes for a state.
json_dump(st) ==
    [seen_ids |-> SetToSeq(st.seen_ids),
     pending_resumes |-> st.pending_resumes,
     halt_counts |-> SortedItems(st.halt_counts, DOMAIN st.halt_counts)]

\* The dict json.load reads from a document (seen_ids as process_feed uses it).
json_load(doc) ==
    [seen_ids |-> {doc.seen_ids[i] : i \in DOMAIN doc.seen_ids},
     pending_resumes |-> doc.pending_resumes,
     halt_counts |-> [k \in {doc.halt_counts[i][1] : i \in DOMAIN doc.halt_counts} |->
                        LET i == CHOOSE j \in DOMAIN doc.halt_counts :
                                     doc.halt_counts[j][1] = k
                        IN  doc.halt_counts[i][2]]]

DefaultState == [seen_ids |-> {}, pending_resumes |-> <<>>, halt_counts |-> EmptyDict]

MissingFile == [kind |-> "missing", doc |-> EmptyDoc]

CorruptFile == [kind |-> "corrupt", doc |-> EmptyDoc]

\* A file whose JSON text is not an object (a list, a number, ...).
NonDictFile == [kind |-> "nondict", doc |-> EmptyDoc]

\* Whether the value a document holds under key k is of another JSON type
\* than the list or object load_state wants there (lines 53-58).  A document
\* written by something else lists such keys under wrong_typed.
WrongTyped(doc, k) == "wrong_typed" \in DOMAIN doc /\ k \in doc.wrong_typed

\* The setdefault calls and isinstance tests of load_state (lines 50-58).
WithDefaults(doc) ==
    [k \in {"seen_ids", "pending_resumes", "halt_counts"} |->
        IF k \notin DOMAIN doc \/ WrongTyped(doc, k) THEN EmptyDoc[k] ELSE doc[k]]

load_state(f) ==
    IF f.kind = "missing" THEN DefaultState
    ELSE IF f.kind = "corrupt" THEN DefaultState
    ELSE IF f.kind = "nondict" THEN DefaultState
    ELSE json_load(WithDefaults(f.doc))

\* What a save leaves on disk: the document; the old file when the open
\* fails; a truncated file when the write fails after the open.
SaveOutcomes == {"ok", "open_failed", "write_failed"}

\* The outcomes a process that is never started again can tell apart: it
\* does not read the file back, so one kind of failure stands for both.
LocalOutcomes == {"ok", "write_failed"}

\* A save that writes the seen ids only.
save_state_seen_only(f, st, outcome) ==
    CASE outcome = "ok" -> [kind |-> "json",
                            doc |-> [json_dump(st) EXCEPT !.pending_resumes = <<>>,
                                                          !.halt_counts = <<>>]]
      [] outcome = "open_failed" -> f
      [] OTHER -> CorruptFile

save_state(f, st, outcome) ==
    CASE outcome = "ok" -> [kind |-> "json", doc |-> json_dump(st)]
      [] outcome = "open_failed" -> f
      [] OTHER -> CorruptFile

(* ------------------------------ scheduler ------------------------------ *)

\* d[k] = v on a dict.
DictSet(d, k, v) == [x \in (DOMAIN d) \cup {k} |-> IF x = k THEN v ELSE d[x]]

\* d.get(k, 0)
DictGet(d, k) == IF k \in DOMAIN d THEN d[k] ELSE 0

\* A policy that keeps escalating after the second halt.
DelayFor_escalating(count) ==
    IF count = 1 THEN FIRST_DELAY
    ELSE IF count = 2 THEN SECOND_DELAY
    ELSE SECOND_DELAY + FIRST_DELAY

\* A policy that starts at the later delay.
DelayFor_flat(count) == LATER_DELAY

DelayFor(count) ==
    IF count = 1 THEN FIRST_DELAY
    ELSE IF count = 2 THEN SECOND_DELAY
    ELSE LATER_DELAY

\* A schedule that appends the entry but does not store the raised counter.
schedule_resume_forgets_count(st, entry, event_id, now) ==
    LET ticker == TickerOf(entry)
        count == DictGet(st.halt_counts, ticker) + 1
        delay_minutes == DelayFor(count)
        pending == [ticker |-> ticker,
                    halt_date |-> get_first(entry, <<"haltdate", "halt_date", "date">>, "n/a"),
                    reason |-> get_first(entry, <<"reasoncode", "reason_code", "reason">>, "n/a"),
                    delay_minutes |-> delay_minutes, due_at |-> now + delay_minutes,
                    event_id |-> event_id]
    IN  [st EXCEPT !.pending_resumes = Append(st.pending_resumes, pending)]

schedule_resume(st, entry, event_id, now) ==
    LET ticker == TickerOf(entry)
        halt_date == get_first(entry, <<"haltdate", "halt_date", "date">>, "n/a")
        reason == get_first(entry, <<"reasoncode", "reason_code", "reason">>, "n/a")
        count == DictGet(st.halt_counts, ticker) + 1
        delay_minutes == DelayFor(count)
        pending == [ticker |-> ticker, halt_date |-> halt_date, reason |-> reason,
                    delay_minutes |-> delay_minutes, due_at |-> now + delay_minutes,
                    event_id |-> event_id]
    IN  [st EXCEPT !.halt_counts = DictSet(st.halt_counts, ticker, count),
                   !.pending_resumes = Append(st.pending_resumes, pending)]

\* A cancel that empties the whole collection.
cancel_pending_all(st, ticker) == [st EXCEPT !.pending_resumes = <<>>]

cancel_pending_for_ticker(st, ticker) ==
    [st EXCEPT !.pending_resumes = SelectSeq(st.pending_resumes,
                                             LAMBDA p : p.ticker # ticker)]

\* The else branch of process_feed: cancel, then reset the counter.
OnResume(st, ticker) ==
    LET c == cancel_pending_for_ticker(st, ticker)
    IN  [c EXCEPT !.halt_counts = DictSet(c.halt_counts, ticker, 0)]

\* A due test that fires nothing.
IsDue_never(pending, now) == FALSE

\* A due test that misses the entry due exactly now.
IsDue_strict(pending, now) == pending.due_at # 0 /\ pending.due_at < now

\* Whether the loop of process_due_resumes fires an entry.
IsDue(pending, now) == pending.due_at # 0 /\ pending.due_at <= now

RECURSIVE DueLoop(_, _, _)
\* The loop of process_due_resumes over the entries left, from an accumulator
\* [remaining, halt_counts, sent, fired]: fired lists the event ids of the
\* entries a RESUME notification was sent for.
DueLoop(left, now, acc) ==
    IF left = <<>> THEN acc
    ELSE LET pending == Head(left)
         IN  IF IsDue(pending, now)
             THEN DueLoop(Tail(left), now,
                          [acc EXCEPT !.halt_counts = DictSet(acc.halt_counts, pending.ticker, 0),
                                      !.sent = acc.sent + 1,
                                      !.fired = Append(acc.fired, pending.event_id)])
             ELSE DueLoop(Tail(left), now,
                          [acc EXCEPT !.remaining = Append(acc.remaining, pending)])

\* The body of process_due_resumes up to its save.
DuePass(st, now) ==
    DueLoop(st.pending_resumes, now,
            [remaining |-> <<>>, halt_counts |-> st.halt_counts, sent |-> 0, fired |-> <<>>])

(* -------------------------------- state -------------------------------- *)

VARIABLES
    clock,        \* time.time(), in minutes
    file,         \* the content of STATE_PATH
    state,        \* the state dict of main
    pc,           \* where main is: top, due, fetch, loop, asleep, exited
    seen_ids,     \* process_feed's local set
    new_count,    \* process_feed's local counter
    due_now,      \* `now` of process_due_resumes in the current tick (-1: not run yet)
    sent,         \* what process_due_resumes returned in the current tick
    writes,       \* save_state calls of the current tick
    last_write,   \* outcome of the last save_state of the current tick
    tick_events,  \* notifications sent in the current tick
    notified,     \* per event id: feed notifications sent by this process
    fired,        \* per event id: scheduled RESUME notifications sent by this process
    loaded_seen,  \* the seen_ids load_state returned to this process
    streak,       \* per ticker: the delays this process scheduled since the
                  \* ticker's counter was last reset
    e2e,          \* the single-entry scenario: which tick it is in, entries read
    probe,        \* two entries handed to detect_event_type and event_id_for,
                  \* and what they returned
    mon           \* what an observer of the process has noted: failed deliveries,
                  \* failed saves, what the current tick fired and resumed

vars == <<clock, file, state, pc, seen_ids, new_count, due_now, sent,
          writes, last_write, tick_events, notified, fired, loaded_seen,
          streak, e2e, probe, mon>>

Zero == [k \in AllIds |-> 0]

\* The run is not (or no longer) the end-to-end scenario.
ScenarioOff == [tick |-> "off", read |-> 0, done |-> FALSE]

\* The end-to-end scenario: a process started without a state file whose
\* every fetch returns the one entry HaltABC1.
ScenarioStart == [tick |-> "none", read |-> 0, done |-> TRUE]

ScenarioEnter(s) ==
    IF s.tick = "off" \/ ~s.done THEN ScenarioOff
    ELSE [tick |-> CASE s.tick = "none" -> "first"
                     [] s.tick = "first" -> "second"
                     [] OTHER -> "later",
          read |-> 0, done |-> FALSE]

ScenarioEntry(s, entry) ==
    IF s.tick # "off" /\ ~s.done /\ s.read = 0 /\ entry = HaltABC1
    THEN [s EXCEPT !.read = 1]
    ELSE ScenarioOff

ScenarioExit(s) ==
    IF s.tick # "off" /\ ~s.done /\ s.read = 1
    THEN [s EXCEPT !.done = TRUE]
    ELSE ScenarioOff

\* f with only the keys of D.
Restrict(f, D) == [k \in D |-> f[k]]

\* An entry without fields.
EmptyEntry == [k \in {} |-> ""]

\* Entries for event_id_for: any subset of the fields of a full entry; the
\* halt date and the halt time can hold the same text.
KeyEntries ==
    {Restrict(full, D) :
        full \in [symbol : {"ABC"}, haltdate : {"x"}, halttime : {"x"},
                  resumedate : {"x"}, reasoncode : {"T1"}, title : {"A", "B"}],
        D \in SUBSET {"symbol", "haltdate", "halttime", "resumedate", "reasoncode", "title"}}

\* Entries for detect_event_type: each field absent, empty or one of the texts.
ClassifyEntries ==
    UNION {[D -> {"", "r1", "T1", "Resumed"}] :
              D \in SUBSET {"resumetime", "resume_time_est", "resume_date",
                            "reasoncode", "reason"}}

\* No entries are handed over (the runs of the poll loop).
ProbeOff == [stage |-> "off", a |-> EmptyEntry, b |-> EmptyEntry,
             ta |-> "", tb |-> "", ka |-> "", kb |-> ""]

\* The entries a and b wait for process_feed lines 318-319.
ProbeIn(a, b) == [stage |-> "in", a |-> a, b |-> b,
                  ta |-> "", tb |-> "", ka |-> "", kb |-> ""]

\* Nobody observes the process.
MonOff == [on |-> {}, undelivered |-> {}, save |-> "clean",
           tick_fired |-> {}, tick_resumed |-> {}, left_by_fire |-> {}]

\* An observer of a process that has done nothing yet; it watches the
\* deliveries, the saves or what each tick fires and resumes.
MonOn(watched) == [MonOff EXCEPT !.on = watched]

\* send_notification for the entry with this id ended as delivery says.
MonNotify(m, event_id, delivery) ==
    IF "deliveries" \in m.on /\ delivery = "failed"
    THEN [m EXCEPT !.undelivered = @ \cup {event_id}]
    ELSE m

\* The else branch of process_feed ran for a RESUME of ticker.
MonResume(m, ticker) ==
    IF "ticks" \in m.on
    THEN [m EXCEPT !.tick_resumed = @ \cup {ticker}, !.left_by_fire = @ \ {ticker}]
    ELSE m

\* process_due_resumes fired the entries of these tickers and kept remaining.
MonDue(m, tickers, remaining) ==
    IF "ticks" \in m.on
    THEN [m EXCEPT !.tick_fired = @ \cup tickers,
                   !.left_by_fire = (@ \ tickers) \cup
                       {t \in tickers : \E i \in DOMAIN remaining : remaining[i].ticker = t}]
    ELSE m

\* save_state ended as outcome says: save is "failed" after a save that
\* failed, "recovered" after a save that succeeded later.
MonSave(m, outcome) ==
    IF "saves" \notin m.on THEN m
    ELSE IF outcome # "ok" THEN [m EXCEPT !.save = "failed"]
    ELSE IF m.save = "failed" THEN [m EXCEPT !.save = "recovered"]
    ELSE m

\* The tick is over.
MonSleep(m) == [m EXCEPT !.tick_fired = {}, !.tick_resumed = {}]

\* A process before its first tick: nothing read, nothing sent.
InitTick ==
    /\ clock = 0
    /\ pc = "top"
    /\ seen_ids = {}
    /\ new_count = 0
    /\ due_now = -1
    /\ sent = 0
    /\ writes = 0
    /\ last_write = "none"
    /\ tick_events = 0
    /\ notified = Zero
    /\ fired = Zero
    /\ streak = [t \in Tickers |-> <<>>]

\* main up to the first tick, started without a state file.
InitProcess ==
    /\ file = MissingFile
    /\ state = load_state(MissingFile)
    /\ loaded_seen = {}
    /\ e2e = ScenarioStart
    /\ InitTick

Init == InitProcess /\ probe = ProbeOff /\ mon = MonOff

(* ------------------------------- actions ------------------------------- *)

\* A process_feed that fetches the feed before it fires the due resumes.
AfterEnter_fetch_first == "fetch"

\* A main without the try/except around process_feed.
OnFeedException_uncaught == "exited"

\* A process_due_resumes that never saves.
SaveAfterDue_never(n) == FALSE

\* A process_due_resumes that forgets to store the remaining entries.
AfterDue_keeps_fired(st, r) == [st EXCEPT !.halt_counts = r.halt_counts]

\* The state process_due_resumes leaves (line 304, and the counters reset
\* in its loop).
AfterDue(st, r) ==
    [st EXCEPT !.pending_resumes = r.remaining, !.halt_counts = r.halt_counts]

\* Where process_feed goes after its first two lines.
AfterEnter == "due"

\* Where main goes when process_feed raises.
OnFeedException == "asleep"

\* `if sent:` of process_due_resumes.
SaveAfterDue(n) == n > 0

\* `if new_count:` of process_feed.
SaveAfterFeed(n) == n > 0

\* process_feed, lines 311-312.
ProcessFeedEnter ==
    /\ pc = "top"
    /\ seen_ids' = state.seen_ids
    /\ new_count' = 0
    /\ pc' = AfterEnter
    /\ e2e' = ScenarioEnter(e2e)
    /\ UNCHANGED <<clock, file, state, due_now, sent, writes, last_write,
                   tick_events, notified, fired, loaded_seen, streak>>
    /\ UNCHANGED <<probe, mon>>

RECURSIVE CountIn(_, _)
\* How often x occurs in s.
CountIn(s, x) ==
    IF s = <<>> THEN 0 ELSE (IF Head(s) = x THEN 1 ELSE 0) + CountIn(Tail(s), x)

\* process_due_resumes, called from process_feed line 314; its save ends as
\* one of outcomes.
ProcessDueResumesOn(outcomes) ==
    /\ pc = "due"
    /\ LET r == DuePass(state, clock)
           st == AfterDue(state, r)
           reset == {state.pending_resumes[i].ticker :
                        i \in {j \in DOMAIN state.pending_resumes :
                                  state.pending_resumes[j].event_id \in
                                      {r.fired[n] : n \in DOMAIN r.fired}}}
       IN  /\ state' = st
           /\ sent' = r.sent
           /\ new_count' = new_count + r.sent
           /\ tick_events' = tick_events + Len(r.fired)
           /\ fired' = [k \in AllIds |-> fired[k] + CountIn(r.fired, k)]
           /\ streak' = [t \in Tickers |-> IF t \in reset THEN <<>> ELSE streak[t]]
           /\ IF SaveAfterDue(r.sent)
              THEN \E o \in outcomes :
                      /\ file' = save_state(file, st, o)
                      /\ last_write' = o
                      /\ writes' = writes + 1
                      /\ mon' = MonSave(MonDue(mon, reset, r.remaining), o)
              ELSE /\ UNCHANGED <<file, last_write, writes>>
                   /\ mon' = MonDue(mon, reset, r.remaining)
    /\ due_now' = clock
    /\ pc' = "fetch"
    /\ UNCHANGED <<clock, seen_ids, notified, loaded_seen, e2e>>
    /\ UNCHANGED probe

\* fetch_rss returns a feed (line 316).
FetchOk ==
    /\ pc = "fetch"
    /\ pc' = "loop"
    /\ UNCHANGED <<clock, file, state, seen_ids, new_count, due_now, sent, writes,
                   last_write, tick_events, notified, fired, loaded_seen, streak,
                   e2e>>
    /\ UNCHANGED <<probe, mon>>

\* fetch_rss raises: the exception leaves process_feed and main catches it
\* (lines 355-356).
FetchFail ==
    /\ pc = "fetch"
    /\ pc' = OnFeedException
    /\ e2e' = ScenarioOff
    /\ UNCHANGED <<clock, file, state, seen_ids, new_count, due_now, sent,
                   writes, last_write, tick_events, notified, fired, loaded_seen,
                   streak>>
    /\ UNCHANGED <<probe, mon>>

\* A loop without the seen check.
IsSeen_never(event_id, seen) == FALSE

\* Whether process_feed skips an entry (line 320).
IsSeen(event_id, seen) == event_id \in seen

\* What send_notification can end as: osascript showed the notification, or
\* it failed or could not be run (lines 198-201 swallow both).
Deliveries == {"delivered", "failed"}

\* One round of the loop of process_feed (lines 317-337) on the entry it
\* reads; its send_notification ends as one of deliveries.
ProcessEntryWith(entry, deliveries) ==
    /\ pc = "loop"
    /\ LET event_type == detect_event_type(entry)
           event_id == event_id_for(entry, event_type)
           ticker == TickerOf(entry)
       IN  IF IsSeen(event_id, seen_ids)
           THEN UNCHANGED <<state, seen_ids, new_count, tick_events, notified, streak, mon>>
           ELSE /\ notified' = [notified EXCEPT ![event_id] = @ + 1]
                /\ tick_events' = tick_events + 1
                /\ IF event_type = "HALT"
                   THEN /\ state' = schedule_resume(state, entry, event_id, clock)
                        /\ streak' = [streak EXCEPT ![ticker] =
                                         Append(@, state'.pending_resumes[
                                                      Len(state'.pending_resumes)].delay_minutes)]
                        /\ \E d \in deliveries : mon' = MonNotify(mon, event_id, d)
                   ELSE /\ state' = OnResume(state, ticker)
                        /\ streak' = [streak EXCEPT ![ticker] = <<>>]
                        /\ \E d \in deliveries :
                              mon' = MonResume(MonNotify(mon, event_id, d), ticker)
                /\ seen_ids' = seen_ids \cup {event_id}
                /\ new_count' = new_count + 1
    /\ e2e' = ScenarioEntry(e2e, entry)
    /\ UNCHANGED <<clock, file, pc, due_now, sent, writes, last_write, fired,
                   loaded_seen>>
    /\ UNCHANGED probe

\* The round when the notification is delivered.
ProcessEntryOf(entry) == ProcessEntryWith(entry, {"delivered"})

ProcessEntry == \E entry \in Entries : ProcessEntryOf(entry)

\* The end of process_feed (lines 339-342) and the return to main; its save
\* ends as one of outcomes.
ProcessFeedExitOn(outcomes) ==
    /\ pc = "loop"
    /\ LET st == [state EXCEPT !.seen_ids = seen_ids]
       IN  /\ state' = st
           /\ IF SaveAfterFeed(new_count)
              THEN \E o \in outcomes :
                      /\ file' = save_state(file, st, o)
                      /\ last_write' = o
                      /\ writes' = writes + 1
                      /\ mon' = MonSave(mon, o)
              ELSE UNCHANGED <<file, last_write, writes, mon>>
    /\ pc' = "asleep"
    /\ e2e' = ScenarioExit(e2e)
    /\ UNCHANGED <<clock, seen_ids, new_count, due_now, sent, tick_events,
                   notified, fired, loaded_seen, streak>>
    /\ UNCHANGED probe

\* time.sleep(POLL_SECONDS), line 357, and the time the cycle itself took.
Sleep ==
    /\ pc = "asleep"
    /\ \E d \in POLL_MINUTES..(MaxTime - clock) : clock' = clock + d
    /\ pc' = "top"
    /\ seen_ids' = {}
    /\ new_count' = 0
    /\ due_now' = -1
    /\ sent' = 0
    /\ writes' = 0
    /\ last_write' = "none"
    /\ tick_events' = 0
    /\ UNCHANGED <<file, state, notified, fired, loaded_seen, streak, e2e>>
    /\ UNCHANGED probe
    /\ mon' = MonSleep(mon)

\* The process is killed and started again: main, lines 346-348.
Restart ==
    /\ pc # "exited"
    /\ LET st == load_state(file)
       IN  /\ state' = st
           /\ loaded_seen' = st.seen_ids
    /\ pc' = "top"
    /\ seen_ids' = {}
    /\ new_count' = 0
    /\ due_now' = -1
    /\ sent' = 0
    /\ writes' = 0
    /\ last_write' = "none"
    /\ tick_events' = 0
    /\ notified' = Zero
    /\ fired' = Zero
    /\ streak' = [t \in Tickers |-> <<>>]
    /\ e2e' = ScenarioOff
    /\ UNCHANGED <<clock, file>>
    /\ UNCHANGED <<probe, mon>>

ProcessDueResumes == ProcessDueResumesOn(LocalOutcomes)

ProcessFeedExit == ProcessFeedExitOn(LocalOutcomes)

\* One process, started without a state file.
Next ==
    \/ ProcessFeedEnter
    \/ ProcessDueResumes
    \/ FetchOk
    \/ FetchFail
    \/ ProcessEntry
    \/ ProcessFeedExit
    \/ Sleep

Spec == Init /\ [][Next]_vars

\* The entries the feed holds in the runs with restarts.
RestartEntries == {HaltABC1, ResumeABC, HaltXYZ1}

ProcessEntryR == \E entry \in RestartEntries : ProcessEntryOf(entry)

ProcessDueResumesR == ProcessDueResumesOn(SaveOutcomes)

ProcessFeedExitR == ProcessFeedExitOn(SaveOutcomes)

\* Processes that are killed and started again on the state file the last
\* one left.
NextRestart ==
    \/ ProcessFeedEnter
    \/ ProcessDueResumesR
    \/ FetchOk
    \/ FetchFail
    \/ ProcessEntryR
    \/ ProcessFeedExitR
    \/ Sleep
    \/ Restart

SpecRestart == Init /\ [][NextRestart]_vars

\* process_feed lines 318-319 on each of the two entries: classify, then key.
ClassifyAndKey ==
    /\ probe.stage = "in"
    /\ LET ta == detect_event_type(probe.a)
           tb == detect_event_type(probe.b)
       IN  probe' = [probe EXCEPT !.stage = "out", !.ta = ta, !.tb = tb,
                                  !.ka = event_id_for(probe.a, ta),
                                  !.kb = event_id_for(probe.b, tb)]
    /\ UNCHANGED <<clock, file, state, pc, seen_ids, new_count, due_now, sent,
                   writes, last_write, tick_events, notified, fired, loaded_seen,
                   streak, e2e, mon>>

InitProbe ==
    /\ mon = MonOff
    /\ InitProcess
    /\ \/ \E a \in KeyEntries, b \in KeyEntries : probe = ProbeIn(a, b)
       \/ \E a \in ClassifyEntries : probe = ProbeIn(a, a)

NextProbe == ClassifyAndKey

\* The classifier and the identity key on their own.
SpecProbe == InitProbe /\ [][NextProbe]_vars

\* An element of pending_resumes that is no JSON object.
NotADict == [json |-> "number"]

IsDict(p) == "json" \notin DOMAIN p

\* What an earlier run left on disk: one seen halt of ABC, its pending
\* resume, its counter.
SavedPending ==
    [ticker |-> "ABC", halt_date |-> "d1", reason |-> "T1", delay_minutes |-> FIRST_DELAY,
     due_at |-> FIRST_DELAY, event_id |-> IdOf(HaltABC1)]

SavedDoc ==
    [seen_ids |-> <<IdOf(HaltABC1)>>, pending_resumes |-> <<SavedPending>>,
     halt_counts |-> <<<<"ABC", 1>>>>]

StateKeys == {"seen_ids", "pending_resumes", "halt_counts"}

\* The state files another program or a crash can leave: none, one that
\* does not parse, one that is no object, the saved document with keys
\* missing, with values of the wrong type, or with a pending_resumes list
\* that holds something that is no object.
ForeignFiles ==
    {MissingFile, CorruptFile, NonDictFile}
    \cup {[kind |-> "json", doc |-> Restrict(SavedDoc, D)] : D \in SUBSET StateKeys}
    \cup {[kind |-> "json",
           doc |-> [k \in StateKeys \cup {"wrong_typed"} |->
                      IF k = "wrong_typed" THEN W ELSE SavedDoc[k]]] :
              W \in (SUBSET StateKeys) \ {{}}}
    \cup {[kind |-> "json", doc |-> [SavedDoc EXCEPT !.pending_resumes = l]] :
              l \in {<<NotADict>>, <<SavedPending, NotADict>>, <<NotADict, SavedPending>>}}

\* main started on a file it did not write.
InitCorrupt ==
    /\ \E f \in ForeignFiles :
          /\ file = f
          /\ state = load_state(f)
          /\ loaded_seen = load_state(f).seen_ids
    /\ e2e = ScenarioOff
    /\ InitTick
    /\ probe = ProbeOff
    /\ mon = MonOff

\* process_due_resumes when every element of the list is an object.
ProcessDueResumesC ==
    /\ \A i \in DOMAIN state.pending_resumes : IsDict(state.pending_resumes[i])
    /\ ProcessDueResumesOn(LocalOutcomes)

\* process_due_resumes when an element is no object: pending.get (line 292)
\* raises on it, after the loop has fired the due entries before it and
\* before line 304 stores the remaining ones; the exception leaves
\* process_feed and main catches it.
ProcessDueResumesRaises ==
    /\ pc = "due"
    /\ \E i \in DOMAIN state.pending_resumes : ~IsDict(state.pending_resumes[i])
    /\ LET list == state.pending_resumes
           bad == CHOOSE i \in DOMAIN list :
                     ~IsDict(list[i]) /\ \A j \in 1..(i - 1) : IsDict(list[j])
           r == DuePass([state EXCEPT !.pending_resumes = SubSeq(list, 1, bad - 1)], clock)
           reset == {list[i].ticker :
                        i \in {j \in 1..(bad - 1) :
                                  list[j].event_id \in {r.fired[n] : n \in DOMAIN r.fired}}}
       IN  /\ state' = [state EXCEPT !.halt_counts = r.halt_counts]
           /\ tick_events' = tick_events + Len(r.fired)
           /\ fired' = [k \in AllIds |-> fired[k] + CountIn(r.fired, k)]
           /\ streak' = [t \in Tickers |-> IF t \in reset THEN <<>> ELSE streak[t]]
    /\ pc' = OnFeedException
    /\ e2e' = ScenarioOff
    /\ UNCHANGED <<clock, file, seen_ids, new_count, due_now, sent, writes,
                   last_write, notified, loaded_seen, probe, mon>>

CorruptEntries == {HaltABC1, ResumeABC}

ProcessEntryC == \E entry \in CorruptEntries : ProcessEntryOf(entry)

NextCorrupt ==
    \/ ProcessFeedEnter
    \/ ProcessDueResumesC
    \/ ProcessDueResumesRaises
    \/ FetchOk
    \/ FetchFail
    \/ ProcessEntryC
    \/ ProcessFeedExit
    \/ Sleep

\* One process, started on any of the foreign files.
SpecCorrupt == InitCorrupt /\ [][NextCorrupt]_vars

\* A process started without a state file, under one of the observers.
InitAudit ==
    /\ InitProcess
    /\ probe = ProbeOff
    /\ \E w \in {"deliveries", "saves", "ticks"} : mon = MonOn({w})

AuditEntries == {HaltABC1, HaltABC2, ResumeABC}

ProcessEntryA == \E entry \in AuditEntries : ProcessEntryWith(entry, Deliveries)

ProcessDueResumesA == ProcessDueResumesOn(SaveOutcomes)

ProcessFeedExitA == ProcessFeedExitOn(SaveOutcomes)

NextAudit ==
    \/ ProcessFeedEnter
    \/ ProcessDueResumesA
    \/ FetchOk
    \/ FetchFail
    \/ ProcessEntryA
    \/ ProcessFeedExitA
    \/ Sleep

\* One process under observation: notifications may fail to be delivered
\* and saves may fail.
SpecAudit == InitAudit /\ [][NextAudit]_vars

LiveEntries == {HaltABC1, ResumeABC, HaltXYZ1}

ProcessEntryL == \E entry \in LiveEntries : ProcessEntryOf(entry)

NextLive ==
    \/ ProcessFeedEnter
    \/ ProcessDueResumes
    \/ FetchOk
    \/ FetchFail
    \/ ProcessEntryL
    \/ ProcessFeedExit
    \/ Sleep

\* One process whose loop keeps running: no call of main's loop blocks for
\* ever (the fetch has a timeout, the sleep returns), so a step that can be
\* taken is taken, up to the horizon of the clock.
SpecLive == Init /\ [][NextLive]_vars /\ WF_vars(NextLive)

(* ------------------------------ observers ------------------------------ *)

\* state["halt_counts"].get(t, 0)
HC(t) == DictGet(state.halt_counts, t)

\* The indexes of the pending resumes of ticker t in a list.
PendingOf(list, t) == {i \in DOMAIN list : list[i].ticker = t}

RECURSIVE SumOver(_, _)
\* The sum of f over the set of ids S.
SumOver(f, S) ==
    IF S = {} THEN 0
    ELSE LET k == CHOOSE x \in S : TRUE IN f[k] + SumOver(f, S \ {k})

\* The ids of the entries of ticker t that classify as event_type.
IdsOf(event_type, t) ==
    {IdOf(e) : e \in {x \in Entries : detect_event_type(x) = event_type /\ TickerOf(x) = t}}

\* How many notifications titled "<event_type>: <t>" this process has sent:
\* process_feed titles them by the entry's type and ticker, process_due_resumes
\* titles them "RESUME: <ticker>".
TitleCount(event_type, t) ==
    SumOver(notified, IdsOf(event_type, t))
    + (IF event_type = "RESUME" THEN SumOver(fired, IdsOf("HALT", t)) ELSE 0)

(* ------------------------------- claims -------------------------------- *)

\* The ids of the entries that classify as HALT, and as RESUME.
HaltIds == {IdOf(e) : e \in {x \in Entries : detect_event_type(x) = "HALT"}}

ResumeIds == {IdOf(e) : e \in {x \in Entries : detect_event_type(x) = "RESUME"}}

\* The ticker of the entry an id belongs to.
TickerOfId == [k \in AllIds |-> TickerOf(CHOOSE e \in Entries : IdOf(e) = k)]

\* This step is a round of the loop of process_feed that notifies id k.
Notifies(k) == pc = "loop" /\ pc' = "loop" /\ notified'[k] = notified[k] + 1

\* C1: a round of the loop of process_feed never notifies an identity key
\* that is already in the seen set (from an earlier tick or an earlier entry
\* of the same feed): a round either notifies one key that was not in the set,
\* or sends nothing and leaves the seen set (and its size), the pending
\* resumes and the halt counters as they were; and no identity key is notified
\* more than once by one process.
C1_Idempotent ==
    /\ [][(pc = "loop" /\ pc' = "loop") =>
            /\ \A k \in seen_ids : notified'[k] = notified[k]
            /\ \/ \E k \in AllIds \ seen_ids :
                     /\ notified' = [notified EXCEPT ![k] = @ + 1]
                     /\ seen_ids' = seen_ids \cup {k}
               \/ /\ notified' = notified
                  /\ fired' = fired
                  /\ tick_events' = tick_events
                  /\ seen_ids' = seen_ids
                  /\ Cardinality(seen_ids') = Cardinality(seen_ids)
                  /\ state'.pending_resumes = state.pending_resumes
                  /\ state'.halt_counts = state.halt_counts]_vars
    /\ [][\A k \in AllIds : notified'[k] <= 1]_vars

\* C1 witness: a later tick of a process has read again, and skipped, the
\* entry it notified in its first tick.
C1_Witness ==
    /\ e2e.tick = "later"
    /\ e2e.read = 1
    /\ pc = "loop"
    /\ notified[IdOf(HaltABC1)] = 1
    /\ IdOf(HaltABC1) \in state.seen_ids
    /\ tick_events = 0

\* C2: every new HALT raises its ticker's counter by exactly one (from 0 when
\* absent) and appends one pending resume whose delay is 5 minutes when the
\* raised counter is 1 and 10 minutes when it is 2 or more, due at now + delay;
\* the delays scheduled for a ticker since its counter was last reset are
\* 5, 10, 10, ... in order and the counter is their number.
C2_DelayPolicy ==
    /\ [][\A k \in HaltIds :
            Notifies(k) =>
                LET t == TickerOfId[k]
                    old == DictGet(state.halt_counts, t)
                    new == DictGet(state'.halt_counts, t)
                    list == state'.pending_resumes
                    last == list[Len(list)]
                IN  /\ new = old + 1
                    /\ t \in DOMAIN state'.halt_counts
                    /\ \A u \in Tickers \ {t} :
                          DictGet(state'.halt_counts, u) = DictGet(state.halt_counts, u)
                    /\ Len(list) = Len(state.pending_resumes) + 1
                    /\ SubSeq(list, 1, Len(list) - 1) = state.pending_resumes
                    /\ last.ticker = t
                    /\ last.event_id = k
                    /\ last.delay_minutes = (IF new = 1 THEN 5 ELSE 10)
                    /\ last.due_at = clock + last.delay_minutes]_vars
    /\ [][\A t \in Tickers :
            /\ DictGet(state'.halt_counts, t) = Len(streak'[t])
            /\ \A i \in DOMAIN streak'[t] : streak'[t][i] = (IF i = 1 THEN 5 ELSE 10)]_vars

\* C2 witness: three new halts of ABC with no resume between them were
\* scheduled with delays 5, 10, 10 and the counter stands at 3.
C2_Witness ==
    /\ streak["ABC"] = <<5, 10, 10>>
    /\ HC("ABC") = 3
    /\ Len(state.pending_resumes) >= 3

\* C3: a new RESUME of ticker S removes every pending resume of S, leaves the
\* pending resumes of every other ticker unchanged and in the same order, sets
\* the counter of S to 0 and leaves every other counter unchanged.
C3_CancelFrame ==
    [][\A k \in ResumeIds :
          Notifies(k) =>
              LET S == TickerOfId[k]
                  Others(list) == SelectSeq(list, LAMBDA p : p.ticker # S)
              IN  /\ PendingOf(state'.pending_resumes, S) = {}
                  /\ state'.pending_resumes = Others(state.pending_resumes)
                  /\ S \in DOMAIN state'.halt_counts
                  /\ state'.halt_counts[S] = 0
                  /\ \A u \in Tickers \ {S} :
                        /\ (u \in DOMAIN state'.halt_counts) = (u \in DOMAIN state.halt_counts)
                        /\ DictGet(state'.halt_counts, u) = DictGet(state.halt_counts, u)]_vars

\* C3 witness: a RESUME of ABC was notified after two halts of ABC were
\* scheduled and not fired; no pending resume of ABC is left, the pending
\* resume of XYZ still is, and the counter of XYZ is still 1.
C3_Witness ==
    /\ notified[IdOf(ResumeABC)] = 1
    /\ notified[IdOf(HaltABC1)] = 1 /\ fired[IdOf(HaltABC1)] = 0
    /\ notified[IdOf(HaltABC2)] = 1 /\ fired[IdOf(HaltABC2)] = 0
    /\ PendingOf(state.pending_resumes, "ABC") = {}
    /\ PendingOf(state.pending_resumes, "XYZ") # {}
    /\ HC("ABC") = 0
    /\ HC("XYZ") = 1

\* C4: a process fires a pending resume at most once: a fired resume is no
\* longer in the collection, and process_due_resumes called again at the same
\* time would fire nothing.
C4_FiresOnce ==
    /\ \A k \in AllIds :
          /\ fired[k] <= 1
          /\ fired[k] >= 1 =>
                \A i \in DOMAIN state.pending_resumes :
                    state.pending_resumes[i].event_id # k
    /\ pc = "fetch" => DuePass(state, due_now).sent = 0

\* C4 witness: a resume fired in an earlier tick, and a later tick's
\* process_due_resumes has run without firing anything.
C4_Witness ==
    /\ \E k \in AllIds : fired[k] = 1
    /\ pc = "fetch"
    /\ sent = 0
    /\ due_now > FIRST_DELAY

\* C5: process_due_resumes splits the collection by due_at <= now: each entry
\* with due_at <= now is notified once, has its ticker's counter set to 0 and is
\* removed; the entries with due_at > now stay, unchanged and in order, and are
\* not notified; the counters of the other tickers are unchanged; the count
\* returned is the number of entries fired.
C5_DueSplit ==
    [][(pc = "due" /\ pc' = "fetch") =>
          LET list == state.pending_resumes
              due == {i \in DOMAIN list : list[i].due_at <= clock}
              dueTickers == {list[i].ticker : i \in due}
          IN  /\ state'.pending_resumes = SelectSeq(list, LAMBDA p : p.due_at > clock)
              /\ \A k \in AllIds :
                    fired'[k] - fired[k] = Cardinality({i \in due : list[i].event_id = k})
              /\ notified' = notified
              /\ \A t \in dueTickers :
                    t \in DOMAIN state'.halt_counts /\ state'.halt_counts[t] = 0
              /\ \A t \in Tickers \ dueTickers :
                    DictGet(state'.halt_counts, t) = DictGet(state.halt_counts, t)
              /\ sent' = Cardinality(due)
              /\ new_count' = new_count + Cardinality(due)
              /\ due_now' = clock]_vars

\* C5 witness: process_due_resumes has just fired one entry that was due
\* exactly now and kept another that is due later.
C5_Witness ==
    /\ pc = "fetch"
    /\ sent = 1
    /\ \E k \in AllIds : fired[k] = 1
    /\ due_now = FIRST_DELAY
    /\ Len(state.pending_resumes) >= 1
    /\ \A i \in DOMAIN state.pending_resumes : state.pending_resumes[i].due_at > due_now

\* How many notifications this process has sent.
TotalSent == SumOver(notified, AllIds) + SumOver(fired, AllIds)

\* The pending resume the first tick of the scenario schedules.
ScenarioPending ==
    [ticker |-> "ABC", halt_date |-> "d1", reason |-> "T1", delay_minutes |-> 5,
     due_at |-> 5, event_id |-> IdOf(HaltABC1)]

\* C6: in a process started at time 0 without a state file whose every fetch
\* returns the one HALT entry of ABC: the first tick sends exactly one
\* notification, titled "HALT: ABC", and leaves exactly one pending resume, of
\* ABC with delay 5; until a tick runs at 5 minutes or later nothing else is
\* sent; the ticks that run at 5 minutes or later have sent exactly one
\* "RESUME: ABC", leave no pending resume and a counter of 0 for ABC, and send
\* no second "HALT: ABC".
C6_EndToEnd ==
    /\ (e2e.tick = "first" /\ e2e.done) =>
          /\ TitleCount("HALT", "ABC") = 1
          /\ TotalSent = 1
          /\ state.pending_resumes = <<ScenarioPending>>
          /\ HC("ABC") = 1
    /\ (e2e.tick \in {"second", "later"} /\ e2e.done /\ pc = "asleep"
            /\ due_now < FIRST_DELAY) =>
          /\ TitleCount("HALT", "ABC") = 1
          /\ TotalSent = 1
          /\ state.pending_resumes = <<ScenarioPending>>
    /\ (e2e.tick \in {"second", "later"} /\ e2e.done /\ pc = "asleep"
            /\ due_now >= FIRST_DELAY) =>
          /\ TitleCount("RESUME", "ABC") = 1
          /\ TitleCount("HALT", "ABC") = 1
          /\ TotalSent = 2
          /\ state.pending_resumes = <<>>
          /\ HC("ABC") = 0

\* C6 witness: the second tick of the scenario ran 5 minutes after the first
\* and has fired the resume.
C6_Witness ==
    /\ e2e.tick = "second"
    /\ e2e.done
    /\ pc = "asleep"
    /\ due_now = FIRST_DELAY
    /\ fired[IdOf(HaltABC1)] = 1
    /\ notified[IdOf(HaltABC1)] = 1

\* C7: within a tick the due resumes are fired and removed before the feed
\* is fetched and before any entry is notified, scheduled or cancelled: while
\* the feed is fetched or read, process_due_resumes has run at this tick's time
\* and no pending resume is due; and a step that notifies a feed entry or
\* changes the pending resumes outside process_due_resumes happens in the loop,
\* after that.
C7_DueBeforeFeed ==
    /\ [][pc' \in {"fetch", "loop"} =>
            /\ due_now' = clock'
            /\ \A i \in DOMAIN state'.pending_resumes :
                  state'.pending_resumes[i].due_at > due_now']_vars
    /\ [][(notified' # notified \/ seen_ids' # seen_ids \/ (state' # state /\ pc # "due")) =>
            \/ pc = "top"
            \/ pc = "asleep"
            \/ pc = "loop" /\ due_now = clock]_vars
    /\ [][(pc \in {"top", "asleep"}) =>
            /\ notified' = notified
            /\ fired' = fired
            /\ state' = state]_vars

\* C7 witness: in one tick a due resume fired and then a feed entry was
\* notified.
C7_Witness ==
    /\ pc = "loop"
    /\ sent >= 1
    /\ tick_events > sent
    /\ due_now = clock

\* C8: a failed fetch never ends the process: main catches it and goes to
\* sleep; the failure changes neither the state nor the seen set, sends
\* nothing, and the resumes fired earlier in the tick stay fired; the sleep
\* ends in the next tick, at least the poll interval later.
C8_FetchFailure ==
    /\ [][pc' # "exited"]_vars
    /\ [][(pc = "fetch" /\ pc' # "loop") =>
            /\ pc' = "asleep"
            /\ state' = state
            /\ seen_ids' = seen_ids
            /\ notified' = notified
            /\ fired' = fired
            /\ file' = file]_vars
    /\ [][(pc = "asleep" /\ pc' # "asleep") =>
            /\ pc' = "top"
            /\ clock' >= clock + POLL_MINUTES
            /\ state' = state]_vars

\* C8 witness: a tick whose fetch failed after a resume fired has ended: one
\* save, by process_due_resumes, and the fired resume is gone.
C8_Witness ==
    /\ pc = "asleep"
    /\ sent >= 1
    /\ writes = 1
    /\ state.seen_ids = seen_ids
    /\ \E k \in AllIds :
          /\ fired[k] = 1
          /\ \A i \in DOMAIN state.pending_resumes : state.pending_resumes[i].event_id # k

\* C9: at the end of a tick that sent a notification (a fired resume or a new
\* event, also when the fetch failed after resumes fired) the state was saved,
\* and when the last save succeeded the file holds the state in memory; a tick
\* that sent nothing saved nothing.
C9_PersistedAfterTick ==
    pc = "asleep" =>
        /\ tick_events > 0 =>
              /\ writes >= 1
              /\ last_write = "ok" => (file.kind = "json" /\ load_state(file) = state)
        /\ tick_events = 0 => (writes = 0 /\ last_write = "none")

\* C9 witness: a tick whose fetch failed after a resume fired has ended with
\* its one save successful.
C9_Witness ==
    /\ pc = "asleep"
    /\ sent >= 1
    /\ tick_events = sent
    /\ writes = 1
    /\ last_write = "ok"
    /\ state.seen_ids # {}

\* C10: saving any reachable state and loading it again gives the same seen
\* set, the same pending resumes field for field and the same counters; and a
\* process never notifies an event whose id was in the seen set it loaded.
C10_RoundTrip ==
    /\ load_state(save_state(file, state, "ok")) = state
    /\ \A k \in loaded_seen : notified[k] = 0 /\ k \in state.seen_ids

\* C10 witness: a process that loaded a seen id, a pending resume and a
\* counter has notified an event that was not in the seen set it loaded.
C10_Witness ==
    /\ loaded_seen # {}
    /\ \E k \in AllIds \ loaded_seen : notified[k] = 1
    /\ state.pending_resumes # <<>>
    /\ \E t \in DOMAIN state.halt_counts : state.halt_counts[t] = 0
    /\ pc = "asleep"

\* The fields event_id_for joins, in its order (lines 99-106).
TupleOf(entry, event_type) ==
    <<event_type,
      get_first(entry, <<"symbol", "ticker">>, ""),
      get_first(entry, <<"haltdate", "halt_date", "date">>, ""),
      get_first(entry, <<"halttime", "halt_time">>, ""),
      get_first(entry, <<"resumedate", "resume_date">>, ""),
      get_first(entry, <<"resumetime", "resume_time">>, ""),
      get_first(entry, <<"reasoncode", "reason_code", "reason">>, "")>>

\* C12: the identity key of two entries is the same exactly when their
\* (type, symbol, halt-date, halt-time, resume-date, resume-time, reason)
\* tuples are equal.
C12_KeyIdentifiesTuple ==
    probe.stage = "out" =>
        ((TupleOf(probe.a, probe.ta) = TupleOf(probe.b, probe.tb)) <=> (probe.ka = probe.kb))

\* The structured fields of an entry are all empty.
StructuredEmpty(entry) ==
    \A i \in 2..7 : TupleOf(entry, "")[i] = ""

\* What the fallback hashes (lines 111-118).
RawOf(entry) ==
    JoinPipe(<<get_first(entry, <<"id", "guid">>, ""),
               get_first(entry, <<"title">>, ""),
               get_first(entry, <<"link">>, ""),
               get_first(entry, <<"published", "updated">>, "")>>)

\* C13: an entry whose structured fields are all empty gets the key
\* "fallback:" followed by the hash of (id/guid, title, link,
\* published-or-updated), so two such entries that differ there get different
\* keys.
C13_FallbackKey ==
    probe.stage = "out" =>
        /\ StructuredEmpty(probe.a) => probe.ka = "fallback:" \o Sha1Hex(RawOf(probe.a))
        /\ StructuredEmpty(probe.b) => probe.kb = "fallback:" \o Sha1Hex(RawOf(probe.b))
        /\ (StructuredEmpty(probe.a) /\ StructuredEmpty(probe.b)
               /\ RawOf(probe.a) # RawOf(probe.b)) => probe.ka # probe.kb

\* The field k of an entry is present and not empty.
HasValue(entry, k) == k \in DOMAIN entry /\ entry[k] # ""

\* The reason of an entry: the first of its reason fields that has a value.
ReasonText(entry) ==
    IF HasValue(entry, "reasoncode") THEN entry["reasoncode"]
    ELSE IF HasValue(entry, "reason_code") THEN entry["reason_code"]
    ELSE IF HasValue(entry, "reason") THEN entry["reason"]
    ELSE ""

\* The decision rule: (a) a resume time or date with a value, (b) a reason
\* that contains "resume" in any case, (c) otherwise HALT.
ExpectedType(entry) ==
    IF \E k \in {"resumetime", "resume_time", "resumetime_est", "resume_time_est",
                  "resumedate", "resume_date"} : HasValue(entry, k)
    THEN "RESUME"
    ELSE IF ReasonText(entry) \in {"Resumed", "RESUMED", "resumed"} THEN "RESUME"
    ELSE "HALT"

C11_LoadNeverFatal ==
    [][pc = "due" => pc' = "fetch"]_vars

\* C15: an identity key is in Seen-Events only if the notification of its
\* entry was delivered: no key whose delivery failed is in the seen set of the
\* tick or of the state.
C15_SeenOnlyDelivered ==
    \A k \in mon.undelivered : k \notin seen_ids /\ k \notin state.seen_ids

\* C16: a save that fails changes nothing in memory and does not stop the
\* tick: whatever the outcome of its save, process_due_resumes leaves the
\* state it computed and goes on to the fetch, and process_feed leaves the
\* state with the tick's seen set and goes to sleep; a tick that sent
\* anything calls save_state again, and a save that succeeds writes the whole
\* state in memory, including what earlier failed saves did not write.
C16_WriteFailureRecoverable ==
    /\ [][(pc = "due" /\ writes' = writes + 1) =>
            /\ pc' = "fetch"
            /\ state' = AfterDue(state, DuePass(state, clock))]_vars
    /\ [][(pc = "loop" /\ pc' # "loop") =>
            /\ pc' = "asleep"
            /\ state' = [state EXCEPT !.seen_ids = seen_ids]]_vars
    /\ [][(pc' = "asleep" /\ tick_events' > 0) => writes' >= 1]_vars
    /\ [][(writes' = writes + 1 /\ last_write' = "ok") =>
            /\ file'.kind = "json"
            /\ load_state(file') = state']_vars
    /\ [][(writes' = writes + 1 /\ last_write' # "ok") =>
            /\ file'.kind # "json" \/ file' = file
            /\ mon'.save \in {"clean", "failed"}]_vars

\* C16 witness: after a save that failed, a later tick's save succeeded and
\* the file holds the state in memory, with the ids of both ticks.
C16_Witness ==
    /\ mon.save = "recovered"
    /\ pc = "asleep"
    /\ writes = 1
    /\ last_write = "ok"
    /\ load_state(file) = state
    /\ Cardinality(state.seen_ids) >= 2
    /\ state.pending_resumes # <<>>

\* C17: when a pending resume is in the collection, the key of the entry it
\* was scheduled for is already in the Seen-Events of the state.
C17_SeenBeforeSchedule ==
    \A i \in DOMAIN state.pending_resumes :
        state.pending_resumes[i].event_id \in state.seen_ids

\* C18 as stated: in no tick does a scheduled resume of a symbol fire and a
\* RESUME entry of the same symbol arrive: the RESUME entry cancels the
\* pending resume that became due.
C18_RealResumeCancelsDue ==
    mon.tick_fired \cap mon.tick_resumed = {}

\* C18, amended: when a new RESUME entry of symbol S is processed, no pending
\* resume of S is due any more (the due ones fired in this tick's due pass);
\* the RESUME entry removes the pending resumes of S that are not yet due
\* and fires nothing.
C18_DueFiresBeforeResume ==
    [][\A k \in ResumeIds :
          Notifies(k) =>
              LET S == TickerOfId[k]
              IN  /\ \A i \in PendingOf(state.pending_resumes, S) :
                        state.pending_resumes[i].due_at > clock
                  /\ due_now = clock
                  /\ PendingOf(state'.pending_resumes, S) = {}
                  /\ fired' = fired]_vars

\* C18 witness: in one tick the scheduled resume of ABC fired and the RESUME
\* entry of ABC was notified as well.
C18_Witness ==
    /\ "ABC" \in mon.tick_fired
    /\ "ABC" \in mon.tick_resumed
    /\ pc = "asleep"
    /\ fired[IdOf(HaltABC1)] = 1
    /\ notified[IdOf(ResumeABC)] = 1
    /\ tick_events >= 2

\* C20 as stated: at every tick boundary a symbol whose counter is 0 or
\* absent has no pending resume.
C20_ZeroMeansNoPending ==
    pc \in {"top", "asleep"} =>
        \A S \in Tickers : HC(S) = 0 => PendingOf(state.pending_resumes, S) = {}

\* C20, amended: at every tick boundary a symbol whose counter is 0 or absent
\* has no pending resume, unless its counter was set to 0 by a scheduled
\* resume that fired while later entries of the symbol stayed pending (and no
\* RESUME entry has cancelled them since).
C20_ZeroUnlessLeftByFire ==
    (pc \in {"top", "asleep"} /\ "ticks" \in mon.on) =>
        \A S \in Tickers :
            (HC(S) = 0 /\ S \notin mon.left_by_fire) =>
                PendingOf(state.pending_resumes, S) = {}

\* C20 witness: the one pending resume of ABC fired and left none behind:
\* the counter is 0 and ABC has no pending resume.
C20_Witness ==
    /\ pc = "asleep"
    /\ "ticks" \in mon.on
    /\ fired[IdOf(HaltABC1)] = 1
    /\ "ABC" \in DOMAIN state.halt_counts
    /\ HC("ABC") = 0
    /\ "ABC" \notin mon.left_by_fire
    /\ PendingOf(state.pending_resumes, "ABC") = {}

\* A pending resume scheduled for the entry with id k is in the collection.
IsPending(k) ==
    \E i \in DOMAIN state.pending_resumes : state.pending_resumes[i].event_id = k

\* ... and it is due within the horizon of the clock.
IsPendingWithin(k) ==
    \E i \in DOMAIN state.pending_resumes :
        /\ state.pending_resumes[i].event_id = k
        /\ state.pending_resumes[i].due_at <= MaxTime

\* C19: while ticks keep occurring and the clock advances, every pending
\* resume that is due within the horizon is eventually removed (cancelled or
\* fired); and once the due pass of a tick has run, no entry that was due at
\* the tick's time is left, whether the fetch that follows fails or not.
C19_EventuallyRemoved ==
    /\ \A k \in HaltIds : IsPendingWithin(k) ~> ~IsPending(k)
    /\ [](pc \in {"fetch", "loop", "asleep"} =>
            \A i \in DOMAIN state.pending_resumes :
                state.pending_resumes[i].due_at > due_now)

\* C19 witness: a tick whose fetch failed has fired the only pending resume:
\* its one save is the one of the due pass, and the collection is empty.
C19_Witness ==
    /\ pc = "asleep"
    /\ fired[IdOf(HaltABC1)] = 1
    /\ sent = 1
    /\ new_count = 1
    /\ writes = 1
    /\ tick_events = 1
    /\ state.pending_resumes = <<>>

=============================================================================
